---- MODULE Spec2Model ----
(***************************************************************************)
(* A model of build.py: the configuration resolver (parse_args), the       *)
(* build-directory guard, the stage orchestrator (main), the browser       *)
(* packager (prepare_browser_files) and the runtime packager               *)
(* (prepare_node_files), over a small file system.                         *)
(*                                                                         *)
(* A file name is the sequence of its dot-separated parts                  *)
(* ("python.data" is <<"python", "data">>); a path is a sequence of names, *)
(* absolute when it starts with Root.  A file's content is a sequence of   *)
(* tokens, a token a sequence of strings: a byte of a binary file is a     *)
(* one-string token, a quoted string literal of the loader script is       *)
(* <<"q", prefix>> \o name.                                                *)
(***************************************************************************)
EXTENDS Naturals, Sequences, FiniteSets, Bags, TLC

\* ------------------------------------------------------------ bounds
\* The number of distinct 12-digit digest prefixes the model tells apart.
HashSpace == 4
\* The longest loader script (in tokens) the browser packager is given.
MaxJsLen == 3
\* The number of invocations of main, and of calls of a packager, in a row.
MaxRuns == 4

\* ------------------------------------------------------------ paths
Root == <<"/">>

IsAbsolute(p) == Len(p) > 0 /\ p[1] = Root

\* Path.__truediv__ with a relative right operand.
Join(p, q) == p \o q

\* What the operating system makes of path p for a process whose working
\* directory is c.
Resolve(c, p) == IF IsAbsolute(p) THEN p ELSE c \o p

Parent(p) == SubSeq(p, 1, Len(p) - 1)

PathName(p) == p[Len(p)]

IsPrefix(a, b) == Len(a) <= Len(b) /\ SubSeq(b, 1, Len(a)) = a

\* p and every directory above it, below the root.
WithParents(p) == {SubSeq(p, 1, n) : n \in 2..Len(p)}

\* ------------------------------------------------------------ digests
HexDigits == <<"h0", "h1", "h2", "h3", "h4", "h5", "h6", "h7">>

StrCode(s) ==
    CASE s = "q" -> 1
      [] s = "" -> 2
      [] s = "python" -> 3
      [] s = "data" -> 5
      [] s = "wasm" -> 7
      [] s = "js" -> 11
      [] s = "python-data" -> 13
      [] s = "loc" -> 17
      [] s = "x" -> 19
      [] s = "/static/" -> 23
      [] s = "/cdn/" -> 29
      [] s = "b0" -> 31
      [] s = "b1" -> 37
      [] s = "b2" -> 41
      [] s = "h0" -> 43
      [] s = "h1" -> 47
      [] s = "h2" -> 53
      [] s = "h3" -> 59
      [] s = "h4" -> 61
      [] s = "h5" -> 67
      [] s = "h6" -> 71
      [] s = "h7" -> 73
      [] OTHER -> 79

RECURSIVE TokCode(_)
TokCode(tok) ==
    IF tok = << >> THEN 0
    ELSE Len(tok) * StrCode(tok[Len(tok)]) + TokCode(SubSeq(tok, 1, Len(tok) - 1))

\* md5(bytes).hexdigest()[:12]: a function of the bytes alone, not injective.
RECURSIVE md5(_)
md5(bytes) ==
    IF bytes = << >> THEN 1
    ELSE (3 * md5(SubSeq(bytes, 1, Len(bytes) - 1))
          + TokCode(bytes[Len(bytes)]) + Len(bytes)) % HashSpace

Hex(n) == HexDigits[n + 1]

\* PurePath.stem and PurePath.suffix of a name given as its parts.
Stem(name) == IF Len(name) > 1 THEN SubSeq(name, 1, Len(name) - 1) ELSE name

Suffix(name) == IF Len(name) > 1 THEN <<name[Len(name)]>> ELSE << >>

\* with_stem with a slip: the new name is the stem alone (with_name), the
\* extension is lost.
with_stem_as_name(p, stem) == Parent(p) \o <<stem>>

\* PurePath.with_stem(stem): the same directory and suffix, another stem.
with_stem(p, stem) == Parent(p) \o <<stem \o Suffix(PathName(p))>>

\* fingerprint_filename with a slip: the digest is taken of the file's name,
\* not of its bytes (md5(path.name.encode())).
fingerprint_filename_of_name(fl, p) ==
    with_stem(p, Stem(PathName(p)) \o <<Hex(md5(<<PathName(p)>>))>>)

\* fingerprint_filename(path) for a file that exists; fl is the file table
\* and path is resolved.
fingerprint_filename(fl, p) ==
    with_stem(p, Stem(PathName(p)) \o <<Hex(md5(fl[p]))>>)

\* ------------------------------------------------------------ browser packager
DataName == <<"python", "data">>
WasmName == <<"python", "wasm">>
JsName == <<"python", "js">>

Quoted(prefix, name) == <<"q", prefix>> \o name

\* wasmBinaryFile=locateFile(wasmBinaryFile)
LocateCall == <<"loc">>

\* The pattern rf'"{path.name}"' is a regular expression: its dot matches any
\* character, so a quoted literal that differs from the name only at the dot
\* matches as well.
DotWildcard(name) ==
    IF name = DataName THEN {<<"python-data">>} ELSE {}

PatternMatches(name, tok) ==
    /\ Len(tok) >= 2
    /\ tok[1] = "q"
    /\ tok[2] = ""
    /\ LET lit == SubSeq(tok, 3, Len(tok))
       IN  lit = name \/ lit \in DotWildcard(name)

\* re.sub(rf'"{name}"', rf'"{url_prefix}{new_name}"', text)
re_sub(name, url_prefix, new_name, text) ==
    [i \in 1..Len(text) |->
        IF PatternMatches(name, text[i]) THEN Quoted(url_prefix, new_name)
        ELSE text[i]]

\* text.replace(old, ""), old a single token
RECURSIVE str_remove(_, _)
str_remove(text, old) ==
    IF text = << >> THEN << >>
    ELSE LET rest == str_remove(Tail(text), old)
         IN  IF Head(text) = old THEN rest ELSE <<Head(text)>> \o rest

\* shutil.copy(src, dst) and Path.write_text(text), on the file table.
copy(fl, src, dst) == (dst :> fl[src]) @@ fl

write_text(fl, p, text) == (p :> text) @@ fl

\* One pass of the for loop of prepare_browser_files (lines 159-174) for the
\* artifact `path`: st is [files, js, raised], js the loader text so far.
BrowserLoopBody(st, path, js_file, url_prefix) ==
    IF st.raised THEN st
    ELSE IF path \notin DOMAIN st.files THEN [st EXCEPT !.raised = TRUE]
    ELSE
      LET new_path == fingerprint_filename(st.files, path)
          f1 == copy(st.files, path, new_path)
          js1 == re_sub(PathName(path), url_prefix, PathName(new_path), st.js)
          js2 == str_remove(js1, LocateCall)
          js_new == fingerprint_filename(f1, js_file)
      IN  [files |-> write_text(f1, js_new, js2), js |-> js2, raised |-> FALSE]

\* The else clause of the for loop (lines 175-177): the loop has no break, so
\* it runs whenever the loop ends.
BrowserLoopElse(st, wasm_file, js_file) ==
    IF st.raised THEN st
    ELSE
      LET f1 == copy(st.files, wasm_file, fingerprint_filename(st.files, wasm_file))
          f2 == copy(f1, js_file, fingerprint_filename(f1, js_file))
      IN  [st EXCEPT !.files = f2]

\* prepare_browser_files(wasm_build_dir, url_prefix) in working directory c:
\* the file table it leaves and whether it raised (a missing input file).
prepare_browser_files(fl, c, wasm_build_dir, url_prefix) ==
    LET dir == Resolve(c, wasm_build_dir)
        data_file == Join(dir, <<DataName>>)
        wasm_file == Join(dir, <<WasmName>>)
        js_file == Join(dir, <<JsName>>)
    IN  IF js_file \notin DOMAIN fl THEN [files |-> fl, js |-> << >>, raised |-> TRUE]
        ELSE
          LET s0 == [files |-> fl, js |-> fl[js_file], raised |-> FALSE]
              s1 == BrowserLoopBody(s0, data_file, js_file, url_prefix)
              s2 == BrowserLoopBody(s1, wasm_file, js_file, url_prefix)
          IN  BrowserLoopElse(s2, wasm_file, js_file)

\* ------------------------------------------------------------ runtime packager
ZipName == <<"wasm-node-build", "zip">>

\* Path.rglob("*") from directory d (as written) for a process in directory c:
\* every directory and file below it, as written paths; nothing when d is no
\* directory.
rglob(ds, fl, c, d) ==
    LET r == Resolve(c, d)
    IN  IF r \notin ds THEN {}
        ELSE {d \o SubSeq(p, Len(r) + 1, Len(p)) :
                 p \in {q \in ds \cup DOMAIN fl : IsPrefix(r, q) /\ q # r}}

\* PurePath.relative_to(base) is lexical: it raises ValueError unless p starts
\* with base as written (an absolute path never starts with a relative one).
CanRelativeTo(p, base) == IsAbsolute(p) = IsAbsolute(base) /\ IsPrefix(base, p)

relative_to(p, base) == SubSeq(p, Len(base) + 1, Len(p))

\* ZipEntries with a slip: the entry is named by the path as walked
\* (zip_file.write(path) with no arcname).
ZipEntries_no_arcname(fl, c, paths, python_build_dir) ==
    {[name |-> Resolve(c, p), data |-> fl[Resolve(c, p)]] :
        p \in {q \in paths : Resolve(c, q) \in DOMAIN fl}}

\* ZipEntries with a slip: the entry is named by the file's name alone.
ZipEntries_basename(fl, c, paths, python_build_dir) ==
    {[name |-> <<PathName(p)>>, data |-> fl[Resolve(c, p)]] :
        p \in {q \in paths : Resolve(c, q) \in DOMAIN fl}}

\* The archive entries the loop of lines 185-190 writes for the paths of one
\* rglob: one entry per regular file, named relative to python_build_dir.
ZipEntries(fl, c, paths, python_build_dir) ==
    {[name |-> relative_to(p, python_build_dir), data |-> fl[Resolve(c, p)]] :
        p \in {q \in paths : Resolve(c, q) \in DOMAIN fl}}

\* prepare_node_files with a slip: the archive is opened in append mode
\* (ZipFile(..., "a")), so the entries of an earlier call stay in it.
prepare_node_files_append(ds, fl, zp, c, python_build_dir, wasm_build_dir) ==
    LET c1 == Resolve(c, python_build_dir)
    IN  IF c1 \notin ds THEN [cwd |-> c, zips |-> zp, raised |-> TRUE]
        ELSE
          LET lib_dir == Join(python_build_dir, <<<<"Lib">>>>)
              lib_paths == rglob(ds, fl, c1, lib_dir)
              wasm_paths == rglob(ds, fl, c1, wasm_build_dir)
              wasm_files == {q \in wasm_paths : Resolve(c1, q) \in DOMAIN fl}
              zip_path == Join(c1, <<ZipName>>)
              old_bag == IF zip_path \in DOMAIN zp THEN zp[zip_path] ELSE EmptyBag
              lib_bag == old_bag
                         (+) SetToBag(ZipEntries(fl, c1, lib_paths, python_build_dir))
          IN  IF \E q \in wasm_files : ~CanRelativeTo(q, python_build_dir)
              THEN [cwd |-> c1, zips |-> (zip_path :> lib_bag) @@ zp, raised |-> TRUE]
              ELSE [cwd |-> c1,
                    zips |-> (zip_path :>
                                (lib_bag (+) SetToBag(ZipEntries(fl, c1, wasm_files,
                                                                 python_build_dir))))
                             @@ zp,
                    raised |-> FALSE]

\* prepare_node_files(python_build_dir, wasm_build_dir) for a process in
\* directory c: the working directory and archives it leaves, and whether it
\* raised.  The archive is a bag of entries: ZipFile.write appends an entry
\* even when the archive already holds one of that name.
prepare_node_files(ds, fl, zp, c, python_build_dir, wasm_build_dir) ==
    LET c1 == Resolve(c, python_build_dir)
    IN  IF c1 \notin ds THEN [cwd |-> c, zips |-> zp, raised |-> TRUE]
        ELSE
          LET lib_dir == Join(python_build_dir, <<<<"Lib">>>>)
              lib_paths == rglob(ds, fl, c1, lib_dir)
              wasm_paths == rglob(ds, fl, c1, wasm_build_dir)
              wasm_files == {q \in wasm_paths : Resolve(c1, q) \in DOMAIN fl}
              lib_bag == SetToBag(ZipEntries(fl, c1, lib_paths, python_build_dir))
              zip_path == Join(c1, <<ZipName>>)
          IN  IF \E q \in wasm_files : ~CanRelativeTo(q, python_build_dir)
              THEN [cwd |-> c1, zips |-> (zip_path :> lib_bag) @@ zp, raised |-> TRUE]
              ELSE [cwd |-> c1,
                    zips |-> (zip_path :>
                                (lib_bag (+) SetToBag(ZipEntries(fl, c1, wasm_files,
                                                                 python_build_dir))))
                             @@ zp,
                    raised |-> FALSE]

\* ------------------------------------------------------------ state
VARIABLES
    pc,         \* where the invocation of main stands ("idle": no process)
    run_no,     \* how many invocations have been started
    args,       \* the argparse namespace, as parse_args leaves it
    config,     \* what read_config returned (a local of parse_args)
    exit_msg,   \* the message of sys.exit, "" when there was none
    cwd,        \* the process's working directory
    environ,    \* the names set in os.environ by this process
    dirs,       \* the directories on disk
    files,      \* the regular files on disk, other than archives: path -> content
    zips,       \* the archives on disk: path -> bag of entries
    log,        \* what this invocation has done so far, in order
    prev_resumed, \* the previous invocation reused all three directories and completed
    call        \* the arguments of a packager called on its own

vars == <<pc, run_no, args, config, exit_msg, cwd, environ, dirs, files, zips,
          log, prev_resumed, call>>

\* ------------------------------------------------------------ the machine at hand
StartDir == <<Root, <<"w">>>>
SourceRoot == <<Root, <<"w">>, <<"cp">>>>
RelSourceRoot == <<<<"cp">>>>
Emsdk1 == <<Root, <<"w">>, <<"emsdk">>>>
Emsdk2 == <<Root, <<"opt">>, <<"emsdk">>>>
NoPath == << >>

Byte(b) == <<<<b>>>>

BaseDirs ==
    {<<Root>>, StartDir, SourceRoot, Emsdk1, <<Root, <<"opt">>>>, Emsdk2,
     Join(SourceRoot, <<<<"Lib">>>>), Join(SourceRoot, <<<<"Lib">>, <<"json">>>>)}

BaseFiles ==
    (Join(SourceRoot, <<<<"configure">>>>) :> Byte("b0"))
    @@ (Join(SourceRoot, <<<<"Lib">>, <<"os", "py">>>>) :> Byte("b1"))
    @@ (Join(SourceRoot, <<<<"Lib">>, <<"json">>, <<"decoder", "py">>>>) :> Byte("b2"))

NoFiles == [p \in {} |-> << >>]

\* What make leaves in a stage's directory.
LoaderScript ==
    <<Quoted("", DataName), LocateCall, Quoted("", WasmName)>>

Artifacts(stage) ==
    CASE stage = "native" -> (<<<<"python">>>> :> Byte("b0"))
      [] stage = "browser" ->
            (<<DataName>> :> Byte("b1")) @@ (<<WasmName>> :> Byte("b2"))
            @@ (<<JsName>> :> LoaderScript)
      [] stage = "node" ->
            (<<WasmName>> :> Byte("b2")) @@ (<<JsName>> :> <<<<"x">>>>)

\* ------------------------------------------------------------ parse_args
Options == <<"cpython", "emsdk", "url_prefix">>

\* `not getattr(args, option)`: None and "" are false, a Path is true.
Falsy(option, v) == IF option = "url_prefix" THEN v = "" ELSE v = NoPath

Get(ns, option) ==
    CASE option = "cpython" -> ns.cpython
      [] option = "emsdk" -> ns.emsdk
      [] option = "url_prefix" -> ns.url_prefix

Set(ns, option, v) ==
    CASE option = "cpython" -> [ns EXCEPT !.cpython = v]
      [] option = "emsdk" -> [ns EXCEPT !.emsdk = v]
      [] option = "url_prefix" -> [ns EXCEPT !.url_prefix = v]

\* ResolveOption with a slip: the configuration file's value wins.
ResolveOption_config_first(st, cfg, option) ==
    IF st.exit # "" THEN st
    ELSE IF option \in cfg.keys
         THEN [st EXCEPT !.args = Set(st.args, option, Get(cfg, option))]
         ELSE IF ~Falsy(option, Get(st.args, option)) THEN st
         ELSE [st EXCEPT !.exit = option]

\* ResolveOption with a slip: an option found nowhere is left unset.
ResolveOption_no_exit(st, cfg, option) ==
    IF st.exit # "" THEN st
    ELSE IF ~Falsy(option, Get(st.args, option)) THEN st
    ELSE IF option \in cfg.keys
         THEN [st EXCEPT !.args = Set(st.args, option, Get(cfg, option))]
         ELSE st

\* One pass of the loop of lines 92-100: st is [args, exit], exit the option
\* sys.exit named ("" while the loop goes on).
ResolveOption(st, cfg, option) ==
    IF st.exit # "" THEN st
    ELSE IF ~Falsy(option, Get(st.args, option)) THEN st
    ELSE IF option \in cfg.keys
         THEN [st EXCEPT !.args = Set(st.args, option, Get(cfg, option))]
         ELSE [st EXCEPT !.exit = option]

\* parse_args, given the namespace argparse built from the command line and
\* the dictionary read_config returned.
parse_args(ns, cfg) ==
    LET s0 == [args |-> ns, exit |-> ""]
        s1 == ResolveOption(s0, cfg, Options[1])
        s2 == ResolveOption(s1, cfg, Options[2])
    IN  ResolveOption(s2, cfg, Options[3])

\* ------------------------------------------------------------ read_config
\* The configuration file: absent, without a wasm section, or with one.
IniFiles ==
    {[is_file |-> FALSE, has_wasm |-> FALSE, keys |-> {},
      cpython |-> NoPath, emsdk |-> NoPath, url_prefix |-> ""],
     [is_file |-> TRUE, has_wasm |-> FALSE, keys |-> {},
      cpython |-> NoPath, emsdk |-> NoPath, url_prefix |-> ""]}
    \cup
    {[is_file |-> TRUE, has_wasm |-> TRUE, keys |-> ks,
      cpython |-> c, emsdk |-> e, url_prefix |-> u] :
        ks \in SUBSET {"cpython", "emsdk", "url_prefix"},
        c \in {NoPath, SourceRoot, RelSourceRoot},
        e \in {NoPath, Emsdk2},
        u \in {"", "/static/"}}

\* Only the sections' well-formed members: a key has a value, and a value a key
\* (a key may hold the empty string).
WellFormedIni(ini) ==
    /\ ("cpython" \in ini.keys) = (ini.cpython # NoPath)
    /\ ("emsdk" \in ini.keys) = (ini.emsdk # NoPath)
    /\ ("url_prefix" \notin ini.keys) => (ini.url_prefix = "")

EmptyConfig ==
    [keys |-> {}, cpython |-> NoPath, emsdk |-> NoPath, url_prefix |-> ""]

read_config(ini) ==
    IF ini.is_file /\ ini.has_wasm
    THEN [keys |-> ini.keys, cpython |-> ini.cpython, emsdk |-> ini.emsdk,
          url_prefix |-> ini.url_prefix]
    ELSE EmptyConfig

\* ------------------------------------------------------------ main
Stages == <<"native", "browser", "node">>

StageDirName(stage) ==
    CASE stage = "native" -> <<"build">>
      [] stage = "browser" -> <<"emscripten-browser">>
      [] stage = "node" -> <<"emscripten-node">>

\* cpython_path / "builddir/<name>" (lines 204, 208, 212)
StageDir(ns, stage) == Join(ns.cpython, <<<<"builddir">>, StageDirName(stage)>>)

\* Path.exists() for the process as it stands
Exists(p) == Resolve(cwd, p) \in dirs \cup DOMAIN files \cup DOMAIN zips

Ev(op, what, at, ok) == [op |-> op, what |-> what, at |-> at, ok |-> ok]

\* run with a slip: the exit status is not checked.
run_raises_never(ok) == FALSE

\* run (lines 30-34): check_returncode raises on a nonzero exit status.
run_raises(ok) == ~ok

\* check_build_dir with a slip: only the answer "n" ends the run.
declines_only_n(answer) == answer = "n"

\* check_build_dir (line 107): any answer but "y" ends the run.
declines(answer) == answer # "y"

\* The test of line 216 with a slip: the toolchain is set up in every run.
wants_emsdk_setup_always(ns) == TRUE

\* `if setup_emsdk_version:` (line 216)
wants_emsdk_setup(ns) == ns.setup_emsdk_version # ""

\* The tests of lines 223-229 with a slip: a stage is skipped when its
\* directory holds the Makefile its configure step left.
skips_stage_if_configured(ns, stage) ==
    Exists(Join(StageDir(ns, stage), <<<<"Makefile">>>>))

\* The tests of lines 223-229 with a slip: the node stage is built without
\* the test of line 229.
skips_stage_but_node(ns, stage) == stage # "node" /\ Exists(StageDir(ns, stage))

\* `if not <dir>.exists()` (lines 223, 226, 229): a stage whose directory
\* exists is skipped.
skips_stage(ns, stage) == Exists(StageDir(ns, stage))

Answers == {"y", "n", ""}

NoArgs ==
    [cpython |-> NoPath, emsdk |-> NoPath, url_prefix |-> "",
     python_version |-> "", setup_emsdk_version |-> ""]

\* No packager is called on its own; `before` is the file table the first call
\* of one found.
NoCall ==
    [python_build_dir |-> NoPath, wasm_build_dir |-> NoPath, url_prefix |-> "",
     before |-> NoFiles]

Ended == pc \in {"done", "exited", "error"}

Resumed ==
    /\ pc = "done"
    /\ Cardinality({i \in 1..Len(log) : log[i].op = "prompt" /\ log[i].what = "y"}) = 3

Init ==
    /\ pc = "idle"
    /\ run_no = 0
    /\ args = NoArgs
    /\ config = EmptyConfig
    /\ exit_msg = ""
    /\ cwd = StartDir
    /\ environ = {}
    /\ dirs = BaseDirs
    /\ files = BaseFiles
    /\ zips = NoFiles
    /\ log = << >>
    /\ prev_resumed = FALSE
    /\ call = NoCall

\* A new process: parser.parse_args() (line 90) builds the namespace from the
\* command line.
Start ==
    /\ pc = "idle" \/ Ended
    /\ run_no < MaxRuns
    /\ run_no' = run_no + 1
    /\ \E c \in {NoPath, SourceRoot, RelSourceRoot}, e \in {NoPath, Emsdk1},
          u \in {"", "/cdn/"}, v \in {"", "v3.11"}, sv \in {"", "3.1.24"} :
          args' = [cpython |-> c, emsdk |-> e, url_prefix |-> u,
                   python_version |-> v, setup_emsdk_version |-> sv]
    /\ pc' = "parse_args"
    /\ prev_resumed' = Resumed
    /\ config' = EmptyConfig
    /\ exit_msg' = ""
    /\ cwd' = StartDir
    /\ environ' = {}
    /\ log' = << >>
    /\ UNCHANGED <<dirs, files, zips, call>>

\* parse_args from line 91 on.
ParseArgs ==
    /\ pc = "parse_args"
    /\ \E ini \in {i \in IniFiles : WellFormedIni(i)} :
          LET cfg == read_config(ini)
              r == parse_args(args, cfg)
          IN  /\ config' = cfg
              /\ args' = r.args
              /\ exit_msg' = r.exit
              /\ pc' = IF r.exit # "" THEN "exited" ELSE "chdir"
    /\ UNCHANGED <<run_no, cwd, environ, dirs, files, zips, log, prev_resumed, call>>

\* os.chdir(cpython_path) (line 201)
Chdir ==
    /\ pc = "chdir"
    /\ config' = EmptyConfig
    /\ LET target == Resolve(cwd, args.cpython)
       IN  IF target \in dirs
           THEN /\ cwd' = target
                /\ pc' = "guard_native"
                /\ log' = Append(log, Ev("chdir", "", target, TRUE))
           ELSE /\ cwd' = cwd
                /\ pc' = "error"
                /\ log' = Append(log, Ev("chdir", "", target, FALSE))
    /\ UNCHANGED <<run_no, args, exit_msg, environ, dirs, files, zips, prev_resumed, call>>

AfterGuard(stage) ==
    CASE stage = "native" -> "guard_browser"
      [] stage = "browser" -> "guard_node"
      [] stage = "node" -> "install"

\* check_build_dir (lines 104-109) for one of the three directories
Guard(stage) ==
    /\ pc = "guard_" \o stage
    /\ IF Exists(StageDir(args, stage))
       THEN \E answer \in Answers :
              /\ log' = Append(log, Ev("prompt", answer,
                                       Resolve(cwd, StageDir(args, stage)), TRUE))
              /\ IF declines(answer)
                 THEN pc' = "exited" /\ exit_msg' = "Exiting"
                 ELSE pc' = AfterGuard(stage) /\ exit_msg' = exit_msg
       ELSE /\ pc' = AfterGuard(stage)
            /\ UNCHANGED <<log, exit_msg>>
    /\ UNCHANGED <<run_no, args, config, cwd, environ, dirs, files, zips,
                   prev_resumed, call>>

\* The frame of a step that runs an external command and changes nothing else.
CommandFrame ==
    UNCHANGED <<run_no, args, config, exit_msg, cwd, dirs, files, zips,
                prev_resumed, call>>

\* run(command, cwd=at) with exit status zero (ok) or not: the step goes on to
\* `next` or the exception ends the invocation.
Command(what, at, ok, next) ==
    /\ log' = Append(log, Ev("run", what, Resolve(cwd, at), ok))
    /\ pc' = IF run_raises(ok) THEN "error" ELSE next

\* lines 216-217
EmsdkInstall ==
    /\ pc = "install"
    /\ IF wants_emsdk_setup(args)
       THEN \E ok \in BOOLEAN : Command("emsdk install", args.emsdk, ok, "activate")
       ELSE pc' = "source" /\ log' = log
    /\ UNCHANGED environ
    /\ CommandFrame

\* line 218
EmsdkActivate ==
    /\ pc = "activate"
    /\ \E ok \in BOOLEAN : Command("emsdk activate", args.emsdk, ok, "source")
    /\ UNCHANGED environ
    /\ CommandFrame

\* shell_source (lines 38-47): the environment the script prints is merged
\* into os.environ.
ShellSource ==
    /\ pc = "source"
    /\ \E ok \in BOOLEAN :
          /\ Command("emsdk_env", args.emsdk, ok, "embuilder_help")
          /\ environ' = IF run_raises(ok) THEN environ ELSE environ \cup {"EMSDK"}
    /\ CommandFrame

\* line 220
EmbuilderHelp ==
    /\ pc = "embuilder_help"
    /\ \E ok \in BOOLEAN : Command("embuilder --help", << >>, ok, "embuilder_build")
    /\ UNCHANGED environ
    /\ CommandFrame

\* line 221
EmbuilderBuild ==
    /\ pc = "embuilder_build"
    /\ \E ok \in BOOLEAN : Command("embuilder build zlib bzip2", << >>, ok, "native")
    /\ UNCHANGED environ
    /\ CommandFrame

AfterStage(stage) ==
    CASE stage = "native" -> "browser"
      [] stage = "browser" -> "node"
      [] stage = "node" -> "prepare_browser"

\* FirstStep with a slip: the build function goes straight to configure,
\* without creating the directory.
FirstStep_no_mkdir(ns, stage) == stage \o "_configure"

\* What a stage's build function does first: build_cpython checks out the
\* requested tag (lines 113-114), the others create their directory.
FirstStep(ns, stage) ==
    IF stage = "native" /\ ns.python_version # "" THEN "native_checkout"
    ELSE stage \o "_mkdir"

\* `if not <dir>.exists(): build_...(...)` (lines 223-230)
StageTest(stage) ==
    /\ pc = stage
    /\ pc' = IF skips_stage(args, stage) THEN AfterStage(stage)
             ELSE FirstStep(args, stage)
    /\ UNCHANGED <<log, environ>>
    /\ CommandFrame

\* line 114
Checkout ==
    /\ pc = "native_checkout"
    /\ \E ok \in BOOLEAN : Command("git checkout", << >>, ok, "native_mkdir")
    /\ UNCHANGED environ
    /\ CommandFrame

\* <dir>.mkdir(parents=True) (lines 115, 121, 137), and for the wasm stages
\* the assignment of CONFIG_SITE that follows it.
Mkdir(stage) ==
    /\ pc = stage \o "_mkdir"
    /\ LET d == Resolve(cwd, StageDir(args, stage))
       IN  IF d \in dirs \cup DOMAIN files \cup DOMAIN zips
           THEN /\ pc' = "error"
                /\ log' = Append(log, Ev("mkdir", stage, d, FALSE))
                /\ UNCHANGED <<dirs, environ>>
           ELSE /\ pc' = stage \o "_configure"
                /\ log' = Append(log, Ev("mkdir", stage, d, TRUE))
                /\ dirs' = dirs \cup WithParents(d)
                /\ environ' = IF stage = "native" THEN environ
                              ELSE environ \cup {"CONFIG_SITE"}
    /\ UNCHANGED <<run_no, args, config, exit_msg, cwd, files, zips, prev_resumed, call>>

\* The configure command names ../../configure, and for a wasm stage the
\* interpreter of the native build, $(pwd)/../build/python: it can succeed only
\* where they exist.
CanConfigure(stage, d) ==
    /\ Len(d) > 2
    /\ Join(Parent(Parent(d)), <<<<"configure">>>>) \in DOMAIN files
    /\ stage # "native" =>
          /\ Join(Parent(d), <<<<"build">>, <<"python">>>>) \in DOMAIN files
          /\ {"EMSDK", "CONFIG_SITE"} \subseteq environ

InDir(d, table) == [p \in {Join(d, q) : q \in DOMAIN table} |->
                       table[SubSeq(p, Len(d) + 1, Len(p))]]

\* lines 116, 125-132, 141-148
Configure(stage) ==
    /\ pc = stage \o "_configure"
    /\ LET d == Resolve(cwd, StageDir(args, stage))
       IN  \E ok \in {FALSE} \cup {CanConfigure(stage, d)} :
              /\ Command("configure", StageDir(args, stage), ok, stage \o "_make")
              /\ files' = IF ok THEN (Join(d, <<<<"Makefile">>>>) :> Byte("b0")) @@ files
                          ELSE files
    /\ UNCHANGED <<run_no, args, config, exit_msg, cwd, environ, dirs, zips,
                   prev_resumed, call>>

\* lines 117, 133, 149
Make(stage) ==
    /\ pc = stage \o "_make"
    /\ LET d == Resolve(cwd, StageDir(args, stage))
       IN  \E ok \in {FALSE} \cup {Join(d, <<<<"Makefile">>>>) \in DOMAIN files} :
              /\ Command("make", StageDir(args, stage), ok, AfterStage(stage))
              /\ files' = IF ok THEN InDir(d, Artifacts(stage)) @@ files ELSE files
    /\ UNCHANGED <<run_no, args, config, exit_msg, cwd, environ, dirs, zips,
                   prev_resumed, call>>

\* line 232
PrepareBrowser ==
    /\ pc = "prepare_browser"
    /\ LET r == prepare_browser_files(files, cwd, StageDir(args, "browser"),
                                      args.url_prefix)
       IN  /\ files' = r.files
           /\ pc' = IF r.raised THEN "error" ELSE "prepare_node"
           /\ log' = Append(log, Ev("prepare_browser_files", "",
                                    Resolve(cwd, StageDir(args, "browser")),
                                    ~r.raised))
    /\ UNCHANGED <<run_no, args, config, exit_msg, cwd, environ, dirs, zips,
                   prev_resumed, call>>

\* line 233
PrepareNode ==
    /\ pc = "prepare_node"
    /\ LET r == prepare_node_files(dirs, files, zips, cwd, args.cpython,
                                   StageDir(args, "node"))
       IN  /\ zips' = r.zips
           /\ cwd' = r.cwd
           /\ pc' = IF r.raised THEN "error" ELSE "done"
           /\ log' = Append(log, Ev("prepare_node_files", "", r.cwd, ~r.raised))
    /\ UNCHANGED <<run_no, args, config, exit_msg, environ, dirs, files,
                   prev_resumed, call>>

Next ==
    \/ Start
    \/ ParseArgs
    \/ Chdir
    \/ \E stage \in {"native", "browser", "node"} : Guard(stage)
    \/ EmsdkInstall
    \/ EmsdkActivate
    \/ ShellSource
    \/ EmbuilderHelp
    \/ EmbuilderBuild
    \/ \E stage \in {"native", "browser", "node"} : StageTest(stage)
    \/ Checkout
    \/ \E stage \in {"native", "browser", "node"} : Mkdir(stage)
    \/ \E stage \in {"native", "browser", "node"} : Configure(stage)
    \/ \E stage \in {"native", "browser", "node"} : Make(stage)
    \/ PrepareBrowser
    \/ PrepareNode

Spec == Init /\ [][Next]_vars

\* ------------------------------------------------------------ the browser packager on its own
\* prepare_browser_files called, up to MaxRuns times in a row, on a directory
\* holding any loader script of up to MaxJsLen tokens and any of the artifacts.
JsTokens ==
    {Quoted("", DataName), Quoted("", WasmName), LocateCall, <<"x">>,
     <<"q", "", "python-data">>}

JsTexts == UNION {[1..n -> JsTokens] : n \in 0..MaxJsLen}

BrowserDir == Join(SourceRoot, <<<<"builddir">>, <<"emscripten-browser">>>>)

OptionalFile(name, contents) ==
    {NoFiles} \cup {(Join(BrowserDir, <<name>>) :> c) : c \in contents}

InitBrowser ==
    /\ pc = "call_browser"
    /\ run_no = 0
    /\ args = NoArgs
    /\ config = EmptyConfig
    /\ exit_msg = ""
    /\ cwd \in {StartDir, SourceRoot}
    /\ environ = {}
    /\ dirs = BaseDirs \cup WithParents(BrowserDir)
    /\ \E d \in OptionalFile(DataName, {Byte("b0"), Byte("b1")}),
          w \in OptionalFile(WasmName, {Byte("b1"), Byte("b2")}),
          j \in OptionalFile(JsName, JsTexts) :
          files = d @@ w @@ j
    /\ zips = NoFiles
    /\ log = << >>
    /\ prev_resumed = FALSE
    /\ \E u \in {"", "/static/"} :
          call = [python_build_dir |-> NoPath,
                  wasm_build_dir |-> IF cwd = SourceRoot
                                     THEN <<<<"builddir">>, <<"emscripten-browser">>>>
                                     ELSE BrowserDir,
                  url_prefix |-> u,
                  before |-> files]

BrowserCall ==
    /\ pc = "call_browser"
    /\ run_no < MaxRuns
    /\ run_no' = run_no + 1
    /\ LET r == prepare_browser_files(files, cwd, call.wasm_build_dir, call.url_prefix)
       IN  /\ files' = r.files
           /\ pc' = IF r.raised THEN "error" ELSE "call_browser"
           /\ log' = Append(log, Ev("prepare_browser_files", "",
                                    Resolve(cwd, call.wasm_build_dir), ~r.raised))
    /\ UNCHANGED <<args, config, exit_msg, cwd, environ, dirs, zips, prev_resumed, call>>

NextBrowser == BrowserCall

SpecBrowser == InitBrowser /\ [][NextBrowser]_vars

\* ------------------------------------------------------------ claims: the browser packager
CallDir == Resolve(cwd, call.wasm_build_dir)

\* The call of prepare_browser_files has returned (it did not raise).
BrowserReturned == pc = "call_browser" /\ run_no >= 1

\* The fingerprinted loader scripts on disk: python.<hash>.js
FingerprintedLoaders ==
    {p \in DOMAIN files :
        /\ Parent(p) = CallDir
        /\ Len(PathName(p)) = 3
        /\ PathName(p)[1] = "python"
        /\ PathName(p)[3] = "js"}

Occurrences(text, tok) == Cardinality({i \in 1..Len(text) : text[i] = tok})

OriginalJs == call.before[Join(CallDir, <<JsName>>)]

FingerprintedName(name) ==
    PathName(fingerprint_filename(call.before, Join(CallDir, <<name>>)))

\* C1: when prepare_browser_files has returned, a fingerprinted loader script
\* left on disk holds no quoted original name "python.data" or "python.wasm",
\* and holds each of their occurrences in the original text as
\* "<url_prefix>python.<hash>.data", "<url_prefix>python.<hash>.wasm".
C1_ReferencesRewritten ==
    BrowserReturned =>
        \A p \in FingerprintedLoaders :
            /\ \A i \in 1..Len(files[p]) :
                  /\ files[p][i] # Quoted("", DataName)
                  /\ files[p][i] # Quoted("", WasmName)
            /\ \A name \in {DataName, WasmName} :
                  Occurrences(files[p], Quoted(call.url_prefix, FingerprintedName(name)))
                      >= Occurrences(OriginalJs, Quoted("", name))

\* ------------------------------------------------------------ the runtime packager on its own
\* prepare_node_files called, up to MaxRuns times in a row, on any pair of
\* directories of a small tree that holds any of NodeFiles.  A wasm tree that
\* holds the archive itself (the source root or above) is left out.
NodeDir == Join(SourceRoot, <<<<"builddir">>, <<"emscripten-node">>>>)
LibDir == Join(SourceRoot, <<<<"Lib">>>>)
NestedDir == Join(LibDir, <<<<"wasm">>>>)
OutsideDir == Join(StartDir, <<<<"out">>>>)

NodeDirs ==
    BaseDirs \cup WithParents(NodeDir) \cup {Join(NodeDir, <<<<"sub">>>>), NestedDir,
                                           OutsideDir}

NodeFiles ==
    (Join(LibDir, <<<<"os", "py">>>>) :> Byte("b1"))
    @@ (Join(LibDir, <<<<"json">>, <<"decoder", "py">>>>) :> Byte("b2"))
    @@ (Join(NestedDir, <<JsName>>) :> <<<<"x">>>>)
    @@ (Join(NodeDir, <<JsName>>) :> <<<<"x">>>>)
    @@ (Join(NodeDir, <<<<"sub">>, <<WasmName>>>>) :> Byte("b2"))
    @@ (Join(OutsideDir, <<JsName>>) :> <<<<"x">>>>)

Restrict(f, S) == [x \in S |-> f[x]]

\* p as a process in directory c writes it: relative when it lies below c.
Written(c, p, relative) ==
    IF relative /\ IsPrefix(c, p) THEN SubSeq(p, Len(c) + 1, Len(p)) ELSE p

InitNode ==
    /\ pc = "call_node"
    /\ run_no = 0
    /\ args = NoArgs
    /\ config = EmptyConfig
    /\ exit_msg = ""
    /\ cwd \in {StartDir, SourceRoot}
    /\ environ = {}
    /\ dirs = NodeDirs
    /\ \E S \in SUBSET DOMAIN NodeFiles : files = Restrict(NodeFiles, S)
    /\ zips = NoFiles
    /\ log = << >>
    /\ prev_resumed = FALSE
    /\ \E b \in {SourceRoot, Join(StartDir, <<<<"missing">>>>)},
          w \in {NodeDir, LibDir, NestedDir, OutsideDir},
          rel \in BOOLEAN :
          call = [python_build_dir |-> Written(cwd, b, rel),
                  wasm_build_dir |-> Written(cwd, w, rel),
                  url_prefix |-> "",
                  before |-> files]

NodeCall ==
    /\ pc = "call_node"
    /\ run_no < MaxRuns
    /\ run_no' = run_no + 1
    /\ LET r == prepare_node_files(dirs, files, zips, cwd, call.python_build_dir,
                                   call.wasm_build_dir)
       IN  /\ zips' = r.zips
           /\ cwd' = r.cwd
           /\ pc' = IF r.raised THEN "error" ELSE "call_node"
           /\ log' = Append(log, Ev("prepare_node_files", "", r.cwd, ~r.raised))
    /\ UNCHANGED <<args, config, exit_msg, environ, dirs, files, prev_resumed, call>>

NextNode == NodeCall

SpecNode == InitNode /\ [][NextNode]_vars

\* ------------------------------------------------------------ claims: the runtime packager
\* The call of prepare_node_files has returned (it did not raise).
NodeReturned == pc = "call_node" /\ run_no >= 1

\* After line 182 the working directory is python_build_dir, and the archive
\* is wasm-node-build.zip there.
ArchivePath == Join(cwd, <<ZipName>>)

Archive == zips[ArchivePath]

ArchiveWritten == run_no >= 1 /\ pc \in {"call_node", "error"} /\ ArchivePath \in DOMAIN zips

\* The directories the loop walks and the one entries are named from, as the
\* process resolves them when the loop runs.
NativeRoot == Resolve(cwd, call.python_build_dir)
LibTree == Resolve(cwd, Join(call.python_build_dir, <<<<"Lib">>>>))
WasmTree == Resolve(cwd, call.wasm_build_dir)

Under(tree, f) == tree \in dirs /\ IsPrefix(tree, f) /\ f # tree

\* The entries of the archive stored under one relative path.
EntriesNamed(name) ==
    BagCardinality([e \in {x \in BagToSet(Archive) : x.name = name} |->
                        CopiesIn(e, Archive)])

\* C9: every entry of wasm-node-build.zip is named by a regular file's path
\* relative to python_build_dir, with no absolute component; and when
\* prepare_node_files has returned, every regular file under
\* python_build_dir/Lib and under wasm_build_dir has an entry, and no
\* directory has one.
C9_EntriesRelative ==
    ArchiveWritten =>
        /\ \A e \in BagToSet(Archive) :
              /\ Len(e.name) >= 1
              /\ \A i \in 1..Len(e.name) : e.name[i] # Root
              /\ Join(NativeRoot, e.name) \in DOMAIN files
              /\ Join(NativeRoot, e.name) \notin dirs
              /\ e.data = files[Join(NativeRoot, e.name)]
        /\ NodeReturned =>
              \A f \in DOMAIN files :
                  (Under(LibTree, f) \/ Under(WasmTree, f)) =>
                      \E e \in BagToSet(Archive) : Join(NativeRoot, e.name) = f

\* A call that returned with files of both trees in the archive.
C9_Witness ==
    /\ NodeReturned
    /\ \E f \in DOMAIN files : Under(WasmTree, f) /\ Len(f) > Len(WasmTree) + 1
    /\ \E f \in DOMAIN files : Under(LibTree, f)
    /\ BagCardinality(Archive) >= 3

TreesOverlap ==
    /\ LibTree \in dirs
    /\ WasmTree \in dirs
    /\ IsPrefix(LibTree, WasmTree) \/ IsPrefix(WasmTree, LibTree)

Events(op) == {i \in 1..Len(log) : log[i].op = op}

Runs(what) == {i \in 1..Len(log) : log[i].op = "run" /\ log[i].what = what}

\* What a build stage does: checkout, mkdir, configure, make.
BuildEvents ==
    Events("mkdir") \cup Runs("git checkout") \cup Runs("configure") \cup Runs("make")

BuildPcs ==
    {"native_checkout"}
    \cup {stage \o step : stage \in {"native", "browser", "node"},
                          step \in {"_mkdir", "_configure", "_make"}}

PackagerEvents == Events("prepare_browser_files") \cup Events("prepare_node_files")

NoCommandFailed == \A i \in Events("run") : log[i].ok

Executed(op) == \E i \in Events(op) : log[i].ok

\* The invocation is one of main (not a packager called on its own).
InMain == pc \notin {"idle", "call_browser", "call_node"} /\ call = NoCall

\* All three directories existed and the user answered "y" three times.
ThreeReused ==
    /\ InMain
    /\ Cardinality({i \in Events("prompt") : log[i].what = "y"}) = 3

\* The working directory main chose at line 201.
MainCwd == log[1].at

BrowserArtifactsPresent ==
    \A name \in {DataName, WasmName, JsName} :
        Join(Resolve(MainCwd, StageDir(args, "browser")), <<name>>) \in DOMAIN files

\* C2 as stated, and granting that no external command fails: an invocation
\* that found all three build directories and was told "y" three times enters no
\* build stage and runs both packagers.
C2_ResumeRunsBothPackagers ==
    (ThreeReused /\ Ended /\ NoCommandFailed) =>
        /\ BuildEvents = {}
        /\ Executed("prepare_browser_files")
        /\ Executed("prepare_node_files")

\* C2, amended: an invocation that found all three build directories and was
\* told "y" three times enters no build stage (no checkout, mkdir, configure
\* or make); if no external command fails and the browser build directory
\* holds python.data, python.wasm and python.js, it runs both packagers and
\* completes.  This holds of every invocation, so of a second one in a row.
C2_ResumeSkipsBuilds ==
    ThreeReused =>
        /\ BuildEvents = {}
        /\ pc \notin BuildPcs
        /\ (Ended /\ NoCommandFailed /\ BrowserArtifactsPresent) =>
              /\ pc = "done"
              /\ Executed("prepare_browser_files")
              /\ Executed("prepare_node_files")

\* The second of two invocations in a row that reused all three directories
\* and completed.
C2_Witness ==
    /\ prev_resumed
    /\ ThreeReused
    /\ pc = "done"
    /\ Executed("prepare_browser_files")
    /\ Executed("prepare_node_files")

\* C3: an external command that exits with a nonzero status is the last
\* thing its invocation does: no command, build stage or packager follows
\* it, and it is not run again.
C3_FailureAborts ==
    InMain =>
        \A i \in Events("run") :
            ~log[i].ok => (i = Len(log) /\ pc = "error")

\* A make that failed after other commands had succeeded.
C3_Witness ==
    /\ InMain
    /\ pc = "error"
    /\ Len(log) >= 5
    /\ log[Len(log)].op = "run"
    /\ log[Len(log)].what = "make"
    /\ ~log[Len(log)].ok

\* parse_args has returned or has ended the run.
ParseArgsOver == InMain /\ (pc = "chdir" \/ (pc = "exited" /\ log = << >>))

\* C4: with cpython and emsdk supplied, no --url-prefix on the command line
\* and no url_prefix key in the configuration file, parse_args returns (with
\* url_prefix "") and does not end the run.
C4_UrlPrefixDefaultsToEmpty ==
    (/\ ParseArgsOver
     /\ args.cpython # NoPath
     /\ args.emsdk # NoPath
     /\ args.url_prefix = ""
     /\ "url_prefix" \notin config.keys)
        => (pc = "chdir" /\ exit_msg = "")

\* C5: parse_args keeps every option given on the command line, whatever the
\* configuration file holds for it, and takes the file's value only for an
\* option the command line left out.
C5_CommandLineWins ==
    [][pc = "parse_args" =>
          \A o \in {"cpython", "emsdk", "url_prefix"} :
              /\ ~Falsy(o, Get(args, o)) => Get(args', o) = Get(args, o)
              /\ Get(args', o) # Get(args, o) =>
                    /\ Falsy(o, Get(args, o))
                    /\ o \in config'.keys
                    /\ Get(args', o) = Get(config', o)]_vars

\* parse_args returned the command line's values although the configuration
\* file held another value for each of the three options.
C5_Witness ==
    /\ InMain
    /\ pc = "chdir"
    /\ {"cpython", "emsdk", "url_prefix"} \subseteq config.keys
    /\ args.cpython # config.cpython
    /\ args.emsdk # config.emsdk
    /\ args.url_prefix # config.url_prefix
    /\ args.url_prefix # ""

\* C6: when cpython or emsdk comes neither from the command line nor from the
\* configuration file, the run ends in parse_args with a message naming a
\* missing option (cpython when cpython is missing), before any chdir, prompt,
\* mkdir or external command.
C6_MissingRequiredExits ==
    \A o \in {"cpython", "emsdk"} :
        (InMain /\ pc # "parse_args" /\ Falsy(o, Get(args, o))) =>
            /\ pc = "exited"
            /\ exit_msg \in {"cpython", "emsdk"}
            /\ Falsy(exit_msg, Get(args, exit_msg))
            /\ exit_msg \notin config.keys
            /\ Falsy("cpython", args.cpython) => exit_msg = "cpython"
            /\ log = << >>
            /\ cwd = StartDir
            /\ environ = {}

\* The run ended for want of emsdk, with build directories on disk.
C6_Witness ==
    /\ InMain
    /\ pc = "exited"
    /\ exit_msg = "emsdk"
    /\ args.cpython # NoPath
    /\ dirs # BaseDirs

\* What main does after the guards: commands, mkdir, the packagers.
WorkEvents == {i \in 1..Len(log) : log[i].op \notin {"chdir", "prompt"}}

\* The guards are behind: main has reached line 216 or a later one.
PastGuards ==
    /\ InMain
    /\ pc \notin {"parse_args", "chdir", "guard_native", "guard_browser", "guard_node",
                  "exited"}
    /\ Len(log) >= 1
    /\ log[1].op = "chdir"
    /\ log[1].ok

\* Directory d was there when the invocation started: it is there and this
\* invocation did not create it.
ExistedAtStart(d) ==
    /\ d \in dirs
    /\ \A i \in Events("mkdir") : log[i].ok => d \notin WithParents(log[i].at)

\* C7: the three build directories are guarded before anything else is done.
\* An answer other than "y" to a prompt ends the run at once, with a clean
\* exit, after no command, mkdir or packager; every prompt comes before
\* every command, mkdir and packager; and a run that passed the guards was
\* prompted for exactly the directories that existed when it started.
C7_GuardBeforeWork ==
    InMain =>
        /\ \A i \in Events("prompt") :
              /\ \A j \in WorkEvents : i < j
              /\ log[i].at \in dirs
              /\ log[i].what # "y" =>
                    /\ i = Len(log)
                    /\ pc = "exited"
                    /\ exit_msg = "Exiting"
                    /\ WorkEvents = {}
                    /\ environ = {}
        /\ PastGuards =>
              \A stage \in {"native", "browser", "node"} :
                  LET d == Resolve(MainCwd, StageDir(args, stage))
                  IN  ExistedAtStart(d) <=> (\E i \in Events("prompt") : log[i].at = d)

\* The third prompt was answered with an empty line and the run ended.
C7_Witness ==
    /\ InMain
    /\ pc = "exited"
    /\ exit_msg = "Exiting"
    /\ Len(log) = 4
    /\ log[4].op = "prompt"
    /\ log[4].what = ""

Before(I, J) == \A i \in I, j \in J : i < j

ReachedStages ==
    /\ InMain
    /\ pc \in {"native", "browser", "node", "prepare_browser", "prepare_node", "done"}
          \cup BuildPcs

\* C8: past the guards, the toolchain is installed and activated only when a
\* version was asked for, and then in that order before the environment is
\* imported; and no build stage or packager starts before the environment
\* was imported and embuilder built zlib and bzip2, whether or not build
\* directories exist.
C8_ToolchainSetup ==
    InMain =>
        /\ args.setup_emsdk_version = "" =>
              Runs("emsdk install") \cup Runs("emsdk activate") = {}
        /\ (Runs("emsdk_env") # {} /\ args.setup_emsdk_version # "") =>
              /\ \E i \in Runs("emsdk install") : log[i].ok
              /\ \E i \in Runs("emsdk activate") : log[i].ok
        /\ Before(Runs("emsdk install"), Runs("emsdk activate"))
        /\ Before(Runs("emsdk activate"), Runs("emsdk_env"))
        /\ Before(Runs("emsdk_env"), Runs("embuilder build zlib bzip2"))
        /\ Before(Runs("embuilder build zlib bzip2"), BuildEvents \cup PackagerEvents)
        /\ (ReachedStages \/ BuildEvents \cup PackagerEvents # {}) =>
              /\ \E i \in Runs("emsdk_env") : log[i].ok
              /\ \E i \in Runs("embuilder build zlib bzip2") : log[i].ok

\* Every build directory existed, a toolchain version was asked for, and the
\* run went through the whole toolchain setup before the packagers.
C8_Witness ==
    /\ ThreeReused
    /\ pc = "prepare_node"
    /\ args.setup_emsdk_version # ""
    /\ Runs("emsdk install") # {}
    /\ Runs("embuilder build zlib bzip2") # {}

\* ------------------------------------------------------------ fingerprint_filename on its own
\* fingerprint_filename called, up to MaxRuns times in a row, on any path of a
\* small tree: files with and without an extension, files of one name in two
\* directories, files of two names with the same bytes, and a path that is no
\* file.  Each call is logged with the path it returned.
FingerprintFiles ==
    {(Join(SourceRoot, <<<<"configure">>>>) :> Byte("b0")) @@ d @@ w @@ j @@ c :
        d \in OptionalFile(DataName, {Byte("b0"), Byte("b1")}),
        w \in OptionalFile(WasmName, {Byte("b1"), Byte("b2")}),
        j \in OptionalFile(JsName, {<< >>, LoaderScript, <<<<"x">>>>}),
        c \in {NoFiles} \cup {(Join(StartDir, <<WasmName>>) :> b) :
                                 b \in {Byte("b1"), Byte("b2")}}}

MissingFile == Join(StartDir, <<<<"missing", "bin">>>>)

InitFingerprint ==
    /\ pc = "call_fingerprint"
    /\ run_no = 0
    /\ args = NoArgs
    /\ config = EmptyConfig
    /\ exit_msg = ""
    /\ cwd = StartDir
    /\ environ = {}
    /\ dirs = BaseDirs \cup WithParents(BrowserDir)
    /\ files \in FingerprintFiles
    /\ zips = NoFiles
    /\ log = << >>
    /\ prev_resumed = FALSE
    /\ call = [NoCall EXCEPT !.before = files]

\* fingerprint_filename(path) (lines 50-54): read_bytes raises when path is no
\* file; nothing is written.
FingerprintCall ==
    /\ pc = "call_fingerprint"
    /\ run_no < MaxRuns
    /\ run_no' = run_no + 1
    /\ \E path \in DOMAIN files \cup {MissingFile} :
          IF path \in DOMAIN files
          THEN /\ log' = Append(log, Ev("fingerprint_filename",
                                        fingerprint_filename(files, path), path, TRUE))
               /\ pc' = pc
          ELSE /\ log' = Append(log, Ev("fingerprint_filename", NoPath, path, FALSE))
               /\ pc' = "error"
    /\ UNCHANGED <<args, config, exit_msg, cwd, environ, dirs, files, zips,
                   prev_resumed, call>>

NextFingerprint == FingerprintCall

SpecFingerprint == InitFingerprint /\ [][NextFingerprint]_vars

\* ------------------------------------------------------------ claims: fingerprint_filename
\* The calls of fingerprint_filename that returned.
Fingerprinted == {i \in 1..Len(log) : log[i].ok}

\* The hash segment of a fingerprinted name: the part before the extension,
\* the last part when there is none.
HashSegment(name, original) ==
    IF Len(original) > 1 THEN name[Len(name) - 1] ELSE name[Len(name)]

\* C11: fingerprint_filename(path) returns a path in path's directory whose
\* name is path's stem, then the digest prefix of the file's bytes, then
\* path's extension (nothing when it has none); two calls on files of the
\* same name and bytes return the same name, two calls on files of the same
\* bytes the same hash segment; and no call changes a file, a directory or an
\* archive.
C11_FingerprintedName ==
    pc \in {"call_fingerprint", "error"} =>
        /\ files = call.before
        /\ dirs = BaseDirs \cup WithParents(BrowserDir)
        /\ zips = NoFiles
        /\ \A i \in Fingerprinted :
              LET path == log[i].at
                  new_path == log[i].what
                  name == PathName(path)
                  new_name == PathName(new_path)
              IN  /\ Len(new_path) = Len(path)
                  /\ Parent(new_path) = Parent(path)
                  /\ Len(new_name) = Len(name) + 1
                  /\ HashSegment(new_name, name) = Hex(md5(files[path]))
                  /\ IF Len(name) > 1
                     THEN /\ new_name[Len(new_name)] = name[Len(name)]
                          /\ \A k \in 1..(Len(name) - 1) : new_name[k] = name[k]
                     ELSE new_name[1] = name[1]
        /\ \A i, j \in Fingerprinted :
              LET a == log[i].at
                  b == log[j].at
              IN  /\ a = b => log[i].what = log[j].what
                  /\ (PathName(a) = PathName(b) /\ files[a] = files[b]) =>
                        PathName(log[i].what) = PathName(log[j].what)
                  /\ files[a] = files[b] =>
                        HashSegment(PathName(log[i].what), PathName(a))
                            = HashSegment(PathName(log[j].what), PathName(b))

\* Calls returned for a file with no extension, for one file twice, and for
\* two files of one name and the same bytes in two directories.
C11_Witness ==
    /\ pc = "call_fingerprint"
    /\ \E i \in Fingerprinted : Len(PathName(log[i].at)) = 1
    /\ \E i, j \in Fingerprinted : i < j /\ log[i].at = log[j].at
    /\ \E i, j \in Fingerprinted :
          /\ Parent(log[i].at) # Parent(log[j].at)
          /\ PathName(log[i].at) = WasmName
          /\ PathName(log[j].at) = WasmName
          /\ files[log[i].at] = files[log[j].at]

\* ------------------------------------------------------------ claims: packaging again
\* The archive this invocation's prepare_node_files writes.
MainArchive == Join(Resolve(MainCwd, args.cpython), <<ZipName>>)

\* An earlier invocation ran both packagers to the end for this source root:
\* its archive is on disk.  Every build directory existed by then, so no
\* build stage has run since.
PackagedBefore == MainArchive \in DOMAIN zips

\* python.data, python.wasm and python.js of the browser build directory.
BrowserOriginals ==
    {Join(Resolve(MainCwd, StageDir(args, "browser")), <<name>>) :
        name \in {DataName, WasmName, JsName}}

\* C12: a packager never changes or removes python.data, python.wasm or
\* python.js; and once both packagers have run for a source root, running
\* prepare_browser_files and then prepare_node_files again, in a later
\* invocation over the same build outputs (with whatever URL prefix), succeeds
\* and leaves every file, directory and archive entry as it was.
C12_PackagingIdempotent ==
    [][(InMain /\ pc \in {"prepare_browser", "prepare_node"}) =>
          /\ \A p \in BrowserOriginals \cap DOMAIN files :
                p \in DOMAIN files' /\ files'[p] = files[p]
          /\ PackagedBefore =>
                /\ files' = files
                /\ dirs' = dirs
                /\ zips' = zips
                /\ pc' = IF pc = "prepare_browser" THEN "prepare_node" ELSE "done"]_vars

\* prepare_browser_files has run again, with a URL prefix, in an invocation
\* that found the archive of an earlier one holding files of both trees, and
\* prepare_node_files is about to.
C12_Witness ==
    /\ InMain
    /\ pc = "prepare_node"
    /\ PackagedBefore
    /\ Executed("prepare_browser_files")
    /\ args.url_prefix = "/cdn/"
    /\ BagCardinality(zips[MainArchive]) >= 4

\* ------------------------------------------------------------ claims: the loader script's name
\* The fingerprinted loader scripts of the call's directory in file table fl.
LoadersOf(fl) ==
    {p \in DOMAIN fl :
        /\ Parent(p) = CallDir
        /\ Len(PathName(p)) = 3
        /\ PathName(p)[1] = "python"
        /\ PathName(p)[3] = "js"}

\* The first call of prepare_browser_files after each pass of its loop: the
\* pass for python.data, then the pass for python.wasm.
AfterDataPass ==
    BrowserLoopBody([files |-> call.before, js |-> OriginalJs, raised |-> FALSE],
                    Join(CallDir, <<DataName>>), Join(CallDir, <<JsName>>),
                    call.url_prefix)

AfterWasmPass ==
    BrowserLoopBody(AfterDataPass, Join(CallDir, <<WasmName>>),
                    Join(CallDir, <<JsName>>), call.url_prefix)

\* C13: in prepare_browser_files no loader script is written before both
\* python.data and python.wasm have been processed, and a fingerprinted
\* loader script is named by the digest of the final rewritten text.
C13_LoaderFingerprintedLast ==
    (BrowserReturned /\ run_no = 1) =>
        /\ LoadersOf(AfterDataPass.files) = LoadersOf(call.before)
        /\ \A p \in LoadersOf(files) \ LoadersOf(call.before) :
              PathName(p)[2] = Hex(md5(AfterWasmPass.js))

\* ------------------------------------------------------------ claims: the order of the stages
\* A stage's build directory as this invocation resolves it.
StagePath(stage) == Resolve(MainCwd, StageDir(args, stage))

ToolchainEvents ==
    Runs("emsdk install") \cup Runs("emsdk activate") \cup Runs("emsdk_env")
    \cup Runs("embuilder --help") \cup Runs("embuilder build zlib bzip2")

MkdirOf(stage) == {i \in Events("mkdir") : log[i].what = stage}

StageRuns(what, stage) == {i \in Runs(what) : log[i].at = StagePath(stage)}

\* Everything a stage's build function did.
StageEvents(stage) ==
    MkdirOf(stage) \cup StageRuns("configure", stage) \cup StageRuns("make", stage)
    \cup (IF stage = "native" THEN Runs("git checkout") ELSE {})

\* The stage was built: its directory created, then configured, then made.
StageBuilt(stage) ==
    \E i \in MkdirOf(stage), j \in StageRuns("configure", stage),
       k \in StageRuns("make", stage) :
        i < j /\ j < k /\ log[i].ok /\ log[j].ok /\ log[k].ok

\* The stage was skipped: its directory was there and nothing was done for it.
StageSkipped(stage) == StageEvents(stage) = {} /\ ExistedAtStart(StagePath(stage))

\* The places of main after the test and the build of a stage.
PcsAfter(stage) ==
    CASE stage = "node" -> {"prepare_browser", "prepare_node", "done"}
      [] stage = "browser" ->
            {"node", "node_mkdir", "node_configure", "node_make",
             "prepare_browser", "prepare_node", "done"}
      [] stage = "native" ->
            {"browser", "browser_mkdir", "browser_configure", "browser_make",
             "node", "node_mkdir", "node_configure", "node_make",
             "prepare_browser", "prepare_node", "done"}

LaterStages(stage) ==
    CASE stage = "native" -> {"browser", "node"}
      [] stage = "browser" -> {"node"}
      [] stage = "node" -> {}

\* main has gone past the stage: it stands after it, or did something that
\* comes after it.
StagePassed(stage) ==
    \/ pc \in PcsAfter(stage)
    \/ PackagerEvents # {}
    \/ \E later \in LaterStages(stage) : StageEvents(later) # {}

\* C14: in every invocation the toolchain setup comes before the native
\* build, that before the browser build, that before the node build, that
\* before prepare_browser_files, and that before prepare_node_files; a stage
\* creates its directory once, then configures once, then makes once, each
\* only after the one before succeeded; a stage main has passed was skipped (its
\* directory was there, nothing was done for it) or built in full; and so no
\* packager starts before all three stages were built or skipped.
C14_FixedOrder ==
    InMain =>
        /\ Before(ToolchainEvents, BuildEvents \cup PackagerEvents)
        /\ Before(StageEvents("native"), StageEvents("browser"))
        /\ Before(StageEvents("browser"), StageEvents("node"))
        /\ Before(BuildEvents, PackagerEvents)
        /\ Before(Events("prepare_browser_files"), Events("prepare_node_files"))
        /\ Events("prepare_node_files") # {} => Executed("prepare_browser_files")
        /\ BuildEvents = UNION {StageEvents(st) : st \in {"native", "browser", "node"}}
        /\ \A stage \in {"native", "browser", "node"} :
              /\ Cardinality(MkdirOf(stage)) <= 1
              /\ Cardinality(StageRuns("configure", stage)) <= 1
              /\ Cardinality(StageRuns("make", stage)) <= 1
              /\ \A j \in StageRuns("configure", stage) :
                    \E i \in MkdirOf(stage) : i < j /\ log[i].ok
              /\ \A k \in StageRuns("make", stage) :
                    \E j \in StageRuns("configure", stage) : j < k /\ log[j].ok
              /\ \A i \in MkdirOf(stage) : ~ExistedAtStart(StagePath(stage))
              /\ StagePassed(stage) => (StageSkipped(stage) \/ StageBuilt(stage))
              /\ (PackagerEvents # {} \/ pc \in {"prepare_browser", "prepare_node", "done"})
                    => (StageSkipped(stage) \/ StageBuilt(stage))

\* An invocation that skipped the native and the browser stage, built the
\* node stage in full and has reached the packagers.
C14_Witness ==
    /\ InMain
    /\ pc = "prepare_browser"
    /\ StageSkipped("native")
    /\ StageSkipped("browser")
    /\ StageBuilt("node")
    /\ ToolchainEvents # {}

\* ------------------------------------------------------------ claims: directories as completion markers
\* What a stage's configure and make leave in its directory.
StageOutputs(stage) ==
    {Join(StagePath(stage), <<<<"Makefile">>>>)}
    \cup {Join(StagePath(stage), q) : q \in DOMAIN Artifacts(stage)}

StageCompleted(stage) == StageOutputs(stage) \subseteq DOMAIN files

Confirmed(stage) ==
    \E i \in Events("prompt") : log[i].at = StagePath(stage) /\ log[i].what = "y"

\* C15 as stated: a stage is skipped only if its configure and make completed
\* in an earlier invocation, and the packagers never run over the directory of
\* a stage whose build failed part-way.
C15_SkippedOnlyIfCompleted ==
    InMain =>
        \A stage \in {"native", "browser", "node"} :
            /\ (StagePassed(stage) /\ StageSkipped(stage)) => StageCompleted(stage)
            /\ PackagerEvents # {} => StageCompleted(stage)

\* C15, amended: a stage's directory comes into being in that stage's mkdir
\* step and nowhere else, before its configure and make, and no step removes
\* a directory, a failed configure or make included; so a directory found at
\* the start of an invocation says that an earlier invocation reached the
\* stage's mkdir, not that the stage was completed.  A stage is skipped exactly
\* when its directory exists, completed or not.
C15_DirectoryMeansCreated ==
    [][InMain =>
          /\ dirs \subseteq dirs'
          /\ \A stage \in {"native", "browser", "node"} :
                LET d == Resolve(cwd, StageDir(args, stage))
                IN  /\ (d \notin dirs /\ d \in dirs') =>
                          (pc = stage \o "_mkdir" /\ pc' = stage \o "_configure")
                    /\ pc \in {stage \o "_configure", stage \o "_make"} =>
                          (d \in dirs /\ d \in dirs')
                    /\ pc = stage =>
                          (d \in dirs <=> pc' \notin {stage \o "_mkdir", "native_checkout"})]_vars

\* An invocation that found the node directory left by a failed build, was
\* told to use it, skipped the stage and ran both packagers to the end.
C15_Witness ==
    /\ InMain
    /\ pc = "done"
    /\ StageSkipped("node")
    /\ Confirmed("node")
    /\ ~StageCompleted("node")
    /\ StageCompleted("browser")
    /\ Executed("prepare_node_files")

\* ------------------------------------------------------------ claims: names and contents
\* The fingerprinted files of the call's directory: python.<hash>.data,
\* python.<hash>.wasm, python.<hash>.js.  The directory held none before the
\* first call, so each was created or overwritten by prepare_browser_files.
FingerprintedFiles ==
    {p \in DOMAIN files :
        /\ Parent(p) = CallDir
        /\ Len(PathName(p)) = 3
        /\ PathName(p)[1] = "python"
        /\ PathName(p)[3] \in {"data", "wasm", "js"}}

\* C16: when prepare_browser_files has returned, the digest prefix of the
\* content of every fingerprinted file it created or overwrote is the hash
\* segment of the file's name.
C16_NameMatchesContent ==
    BrowserReturned =>
        /\ \A p \in FingerprintedFiles : PathName(p)[2] = Hex(md5(files[p]))
        /\ \A p \in DOMAIN files \ DOMAIN call.before : p \in FingerprintedFiles

\* A call returned that rewrote references in the loader text and left a
\* fingerprinted file of each of the three kinds.
C16_Witness ==
    /\ BrowserReturned
    /\ call.url_prefix = "/static/"
    /\ Occurrences(OriginalJs, Quoted("", DataName)) >= 1
    /\ Occurrences(OriginalJs, Quoted("", WasmName)) >= 1
    /\ AfterWasmPass.js # OriginalJs
    /\ \A ext \in {"data", "wasm", "js"} :
          \E p \in FingerprintedFiles : PathName(p)[3] = ext

\* ------------------------------------------------------------ claims: the requested version
\* C17: in an invocation given --python-version (and an absolute source
\* root), every configure step is preceded by a git checkout that succeeded,
\* whichever stages are built.
C17_CheckoutBeforeConfigure ==
    (InMain /\ args.python_version # "" /\ IsAbsolute(args.cpython)) =>
        \A j \in Runs("configure") :
            \E i \in Runs("git checkout") : i < j /\ log[i].ok

\* ------------------------------------------------------------ claims: the source root
\* The source root the command line or the configuration file names, for the
\* directory the tool was started from.
GivenSourceRoot == Resolve(StartDir, args.cpython)

BuildDirOf(root, stage) == Join(root, <<<<"builddir">>, StageDirName(stage)>>)

\* C18: for an absolute and for a relative source root, every prompt, mkdir,
\* configure, make and call of prepare_browser_files is for
\* <source_root>/builddir/<stage directory> of the source root given, and
\* prepare_node_files works (and writes the archive) in <source_root>.
C18_DirectoriesUnderSourceRoot ==
    (InMain /\ args.cpython # NoPath) =>
        /\ \A i \in Events("mkdir") :
              log[i].at = BuildDirOf(GivenSourceRoot, log[i].what)
        /\ \A i \in Events("prompt") \cup Runs("configure") \cup Runs("make") :
              log[i].at \in {BuildDirOf(GivenSourceRoot, stage) :
                                stage \in {"native", "browser", "node"}}
        /\ \A i \in Events("prepare_browser_files") :
              log[i].at = BuildDirOf(GivenSourceRoot, "browser")
        /\ \A i \in Events("prepare_node_files") : log[i].at = GivenSourceRoot

====
